---- MODULE Spec2Model ----
(***************************************************************************)
(* State-machine model of backend/main.py of the OBR forecast household    *)
(* calculator: the POST /calculate handler (calculate_forecast), the       *)
(* household matcher (get_simulation_input), the custom growth-factor      *)
(* table (create_custom_growth_factors) and the calls into the external    *)
(* simulation engine (calculate_household).                                *)
(*                                                                         *)
(* Number representations.                                                 *)
(*   - Panel incomes, ages, weights and the request's income_amount are    *)
(*     whole numbers.                                                      *)
(*   - Forecast-table values are exact rationals <<num, den>> in lowest    *)
(*     terms with den > 0, so compounding (1 + r/100) is exact.            *)
(*   - A float of the handler is an exact rational too.  The engine        *)
(*     returns whole thousandths of a currency unit; round(x, 2) yields    *)
(*     the nearest multiple of 1/100, ties to even as Python's round.      *)
(*   - Optional[T] is a sequence: << >> is None, <<v>> is the value v.     *)
(***************************************************************************)
EXTENDS Integers, Sequences, FiniteSets, TLC

\* ------------------------------------------------------------------ bounds

\* Number of requests that may be in flight at the same time (worker threads).
NumWorkers == 2

\* Largest num_children a request of the model carries.
MaxChildren == 2

Workers == 1..NumWorkers

\* --------------------------------------------------------------- Optional

None == << >>

Some(v) == <<v>>

IsSome(o) == o /= << >>

Get(o) == o[1]

\* ------------------------------------------------------ exact arithmetic

Abs(x) == IF x < 0 THEN -x ELSE x

RECURSIVE GCD(_, _)
GCD(a, b) == IF b = 0 THEN a ELSE GCD(b, a % b)

\* The rational n/d (d > 0) in lowest terms.
Rat(n, d) == LET g == GCD(Abs(n), d) IN <<n \div g, d \div g>>

RatMul(x, y) == Rat(x[1] * y[1], x[2] * y[2])

\* Nearest integer to n/d (d > 0), ties to the even neighbour: Python's round.
RoundDiv(n, d) ==
    LET q == n \div d
        r == n % d
    IN  IF 2 * r < d THEN q
        ELSE IF 2 * r > d THEN q + 1
        ELSE IF q % 2 = 0 THEN q ELSE q + 1

\* ----------------------------------------------------- forecast tables

Params == {"gov.obr.employment_income", "gov.obr.mixed_income",
           "gov.obr.non_labour_income", "gov.obr.consumer_price_index"}

\* The keys "year:2025:1" .. "year:2034:1" of every series, by their year.
BaseYear == 2025

CompareYear == 2030

LastYear == 2034

Years == BaseYear..LastYear

\* A series from its ten values written in hundredths.
Series(h) == [y \in Years |-> Rat(h[y - BaseYear + 1], 100)]

Autumn24Values ==
    [p \in Params |->
        CASE p = "gov.obr.employment_income" ->
               Series(<<121560, 124650, 127770, 131290, 135290,
                        138036, 140782, 143528, 146274, 149020>>)
          [] p = "gov.obr.mixed_income" ->
               Series(<<17760, 19670, 20530, 21460, 22500,
                        23234, 23968, 24702, 25436, 26170>>)
          [] p = "gov.obr.non_labour_income" ->
               Series(<<46080, 51270, 53500, 55400, 57180,
                        58838, 60496, 62154, 63812, 65470>>)
          [] p = "gov.obr.consumer_price_index" ->
               Series(<<13810, 14110, 14410, 14710, 15010,
                        15250, 15490, 15730, 15970, 16210>>)]

Spring25Values ==
    [p \in Params |->
        CASE p = "gov.obr.employment_income" ->
               Series(<<121560, 124650, 127770, 131290, 135290,
                        138036, 140782, 143528, 146274, 149020>>)
          [] p = "gov.obr.mixed_income" ->
               Series(<<17760, 19670, 20530, 21460, 22500,
                        23234, 23968, 24702, 25436, 26170>>)
          [] p = "gov.obr.non_labour_income" ->
               Series(<<46080, 51270, 53500, 55400, 57180,
                        58838, 60496, 62154, 63812, 65470>>)
          [] p = "gov.obr.consumer_price_index" ->
               Series(<<13810, 14110, 14410, 14710, 15010,
                        15250, 15490, 15730, 15970, 16210>>)]

\* A reference to one inner dict object (a per-parameter series).  worker = 0
\* marks an object owned by the module; a request's objects carry its worker.
ModuleRef(name, p) == [name |-> name, worker |-> 0, key |-> p]

RequestRef(i, p) == [name |-> "custom_forecast", worker |-> i, key |-> p]

\* The two module-level dicts: parameter name -> inner dict object.
AUTUMN_24_OBR_FORECAST == [p \in Params |-> ModuleRef("AUTUMN_24_OBR_FORECAST", p)]

SPRING_25_OBR_FORECAST == [p \in Params |-> ModuleRef("SPRING_25_OBR_FORECAST", p)]

ModuleRefs == {AUTUMN_24_OBR_FORECAST[p] : p \in Params}
                \cup {SPRING_25_OBR_FORECAST[p] : p \in Params}

\* The heap of inner dict objects once the module is imported.
InitialStore ==
    [r \in ModuleRefs |->
        IF r.name = "AUTUMN_24_OBR_FORECAST" THEN Autumn24Values[r.key]
        ELSE Spring25Values[r.key]]

\* --------------------------------------------------------------- the panel

income_sources == <<"employment_income", "self_employment_income",
                    "private_pension_income", "state_pension",
                    "savings_interest_income", "dividend_income",
                    "property_income">>

IncomeSourceSet == {income_sources[k] : k \in 1..Len(income_sources)}

\* One person row of the dataframe.  inc lists the seven incomes in the order
\* of income_sources.
Person(pid, hid, bid, age, rel, kids, weight, adult, child, inc) ==
    [age |-> age, employment_income |-> inc[1], relation_type |-> rel,
     benunit_count_children |-> kids, self_employment_income |-> inc[2],
     private_pension_income |-> inc[3], state_pension |-> inc[4],
     dividend_income |-> inc[6], savings_interest_income |-> inc[5],
     property_income |-> inc[7], person_id |-> pid, benunit_id |-> bid,
     household_id |-> hid, state_id |-> 0, person_state_id |-> 0,
     person_benunit_id |-> bid, person_household_id |-> hid,
     household_weight |-> weight, adult_index |-> adult, child_index |-> child]

\* A panel of six households.  Household 2 is a couple whose main adult is
\* outside the partner's decade bucket and income band; household 4 has
\* sampling weight 0; household 5 is a lone parent with two children.
Panel ==
    << Person(101, 1, 11, 34, "SINGLE", 0, 1000, 1, -1,
              <<28000, 0, 0, 0, 120, 0, 0>>),
       Person(201, 2, 21, 45, "COUPLE", 1, 2000, 1, -1,
              <<80000, 0, 0, 0, 300, 1500, 0>>),
       Person(202, 2, 21, 33, "COUPLE", 1, 2000, 2, -1,
              <<30000, 5000, 0, 0, 0, 0, 0>>),
       Person(203, 2, 21, 5, "COUPLE", 1, 2000, 0, 1,
              <<0, 0, 0, 0, 0, 0, 0>>),
       Person(301, 3, 31, 70, "SINGLE", 0, 1500, 1, -1,
              <<0, 0, 4000, 9000, 50, 0, 0>>),
       Person(401, 4, 41, 38, "SINGLE", 0, 0, 1, -1,
              <<25000, 0, 0, 0, 0, 0, 0>>),
       Person(501, 5, 51, 31, "SINGLE", 2, 800, 1, -1,
              <<12000, 0, 0, 0, 0, 0, 6000>>),
       Person(502, 5, 51, 12, "SINGLE", 2, 800, 0, 1,
              <<0, 0, 0, 0, 10, 0, 0>>),
       Person(503, 5, 51, 3, "SINGLE", 2, 800, 0, 2,
              <<0, 0, 0, 0, 0, 0, 0>>),
       Person(601, 6, 61, 36, "SINGLE", 0, 1200, 1, -1,
              <<40000, 2000, 0, 0, 0, 700, 0>>) >>

Columns == DOMAIN Panel[1]

\* ------------------------------------------------------------ data models

\* GrowthFactors: four Optional[float] rates, in percent.
GrowthFactors(e, m, n, c) ==
    [employment_income_yoy |-> e, mixed_income_yoy |-> m,
     non_labour_income_yoy |-> n, consumer_price_index_yoy |-> c]

\* Household: the request body.
Household(age, married, source, amount, kids, factors) ==
    [age |-> age, is_married |-> married, income_source |-> source,
     income_amount |-> amount, num_children |-> kids,
     custom_growth_factors |-> factors]

\* ForecastResult as first constructed: the three custom fields default to None.
ForecastResult(i25, obr, aut, abs, pct, fd, fpd) ==
    [income_2025 |-> i25, income_2030_obr |-> obr, income_2030_autumn |-> aut,
     income_2030_custom |-> None, absolute_change_obr |-> abs,
     percentage_change_obr |-> pct, forecast_difference |-> fd,
     forecast_percentage_difference |-> fpd,
     absolute_change_custom |-> None, percentage_change_custom |-> None]

\* ------------------------------------------------------------------- state

VARIABLES
    microdata,          \* the dataframe loaded when the module is imported
    store,              \* heap: reference of an inner dict -> its series
    pc,                 \* per worker: where its request stands in the handler
    household,          \* per worker: Optional request body
    sampled,            \* per worker: Optional index of the row the draw returned
    situation,          \* per worker: Optional situation dict
    income_2025,        \* per worker: Optional unrounded engine result
    income_2030_autumn, \* per worker: Optional unrounded engine result
    income_2030_spring, \* per worker: Optional unrounded engine result
    income_2030_custom, \* per worker: Optional unrounded engine result
    custom_forecast,    \* per worker: Optional dict parameter -> inner dict
    result,             \* per worker: Optional ForecastResult
    calls,              \* per worker: the engine calls of its request, in order
    status              \* per worker: 0 in flight, else the HTTP status sent

vars == <<microdata, store, pc, household, sampled, situation, income_2025,
          income_2030_autumn, income_2030_spring, income_2030_custom,
          custom_forecast, result, calls, status>>

\* ------------------------------------------------------ household matcher

MinAge == 16

Tolerance == 15000

RelationTag(h) == IF h.is_married THEN "COUPLE" ELSE "SINGLE"

\* The three demographic conditions of the first filter.
MatchesDemographics(row, h) ==
    /\ row.age \div 10 = h.age \div 10
    /\ row.relation_type = RelationTag(h)
    /\ row.benunit_count_children = h.num_children

\* microdata_subset[household.income_source] - household.income_amount
\* evaluates: the name is a column, and the column is numeric.
ColumnUsable(col) == col \in Columns /\ col /= "relation_type"

WithinTolerance(row, h) ==
    Abs(row[h.income_source] - h.income_amount) < Tolerance

\* Index labels of the rows left after both filters.
\* Faulty variant: the income filter is left out.
Candidates_NoIncomeFilter(md, h) ==
    {k \in DOMAIN md : MatchesDemographics(md[k], h)}

Candidates(md, h) ==
    {k \in DOMAIN md : MatchesDemographics(md[k], h) /\ WithinTolerance(md[k], h)}

\* Rows a weighted draw can return: sample() never picks a zero weight.
\* Faulty variant: an empty selection falls back to the first filter alone.
Drawable_Relaxed(md, h) ==
    IF Candidates(md, h) /= {}
    THEN {k \in Candidates(md, h) : md[k].household_weight > 0}
    ELSE {k \in DOMAIN md : MatchesDemographics(md[k], h)
                              /\ md[k].household_weight > 0}

Drawable(md, h) == {k \in Candidates(md, h) : md[k].household_weight > 0}

\* The draw raises: bad column, nothing to draw from, or no weight to draw by.
DrawFails(md, h) == ~ColumnUsable(h.income_source) \/ Drawable(md, h) = {}

HouseholdRows(md, hid) == {k \in DOMAIN md : md[k].household_id = hid}

First(S) == CHOOSE k \in S : \A j \in S : k <= j

Put(f, k, v) == [x \in DOMAIN f \cup {k} |-> IF x = k THEN v ELSE f[x]]

IncomesOf(row) == [v \in IncomeSourceSet |-> row[v]]

\* "you": the query's age, the main adult's seven incomes, then the
\* designated field overwritten by the query's amount.
\* (Faulty variant: the designated field keeps the main adult's value.)
YouOf_NoOverride(h, main_adult) ==
    Put(IncomesOf(main_adult), "age", h.age)

YouOf(h, main_adult) ==
    Put(Put(IncomesOf(main_adult), "age", h.age),
        h.income_source, h.income_amount)

SpouseOf(h, partner) == IncomesOf(partner)

ChildOf(child) == Put(IncomesOf(child), "age", child.age)

ChildNames == <<"child 1", "child 2", "child 3", "child 4">>

\* The rows .values[0] is applied to; an empty one raises IndexError.
MainAdults(md, hid) == {k \in HouseholdRows(md, hid) : md[k].adult_index = 1}

Partners(md, hid) == {k \in HouseholdRows(md, hid) : md[k].adult_index = 2}

ChildRows(md, hid, n) == {k \in HouseholdRows(md, hid) : md[k].child_index = n}

LookupFails(md, h, hid) ==
    \/ MainAdults(md, hid) = {}
    \/ h.is_married /\ Partners(md, hid) = {}
    \/ \E n \in 1..h.num_children : ChildRows(md, hid, n) = {}

\* situation["people"] for the household the drawn row k belongs to.
PeopleOf(md, h, k) ==
    LET hid == md[k].household_id
        names == {"you"}
                   \cup (IF h.is_married THEN {"your partner"} ELSE {})
                   \cup {ChildNames[n] : n \in 1..h.num_children}
    IN  [nm \in names |->
            IF nm = "you" THEN YouOf(h, md[First(MainAdults(md, hid))])
            ELSE IF nm = "your partner"
                 THEN SpouseOf(h, md[First(Partners(md, hid))])
            ELSE LET n == CHOOSE c \in 1..h.num_children : ChildNames[c] = nm
                 IN  ChildOf(md[First(ChildRows(md, hid, n))])]

\* ------------------------------------------------- custom growth factors

FirstLoopYear == 2026

RatePart == 100

\* custom_factors.<field> for the series the parameter p names.
RateOf(gf, p) ==
    CASE p = "gov.obr.employment_income" -> gf.employment_income_yoy
      [] p = "gov.obr.mixed_income" -> gf.mixed_income_yoy
      [] p = "gov.obr.non_labour_income" -> gf.non_labour_income_yoy
      [] p = "gov.obr.consumer_price_index" -> gf.consumer_price_index_yoy

\* (1 + rate / 100)
GrowthOf(rate) == Rat(RatePart + rate, RatePart)

\* for year in range(2026, 2035): current *= growth; series[year] = current
\* Faulty variant: every year holds base * growth, current is never carried.
Compound_Flat(series, current, growth, year) ==
    [y \in Years |-> IF y >= year THEN RatMul(current, growth) ELSE series[y]]

RECURSIVE Compound(_, _, _, _)
Compound(series, current, growth, year) ==
    IF year > LastYear THEN series
    ELSE LET next == RatMul(current, growth)
         IN  Compound([series EXCEPT ![year] = next], next, growth, year + 1)

\* value.copy(): a new inner dict object, owned by the request of worker i.
\* (Faulty variant: no copy, the Autumn object itself.)
CopyRef_Alias(ref, i) == ref

CopyRef(ref, i) == RequestRef(i, ref.key)

\* create_custom_growth_factors: the heap afterwards and the dict returned.
CreateCustomGrowthFactors(st, i, gf) ==
    LET forecast == [p \in Params |-> CopyRef(AUTUMN_24_OBR_FORECAST[p], i)]
        fresh == {forecast[p] : p \in Params}
        copied == [r \in DOMAIN st \cup fresh |->
                     IF r \in fresh
                     THEN st[AUTUMN_24_OBR_FORECAST[r.key]]
                     ELSE st[r]]
        base_values == [p \in Params |-> copied[AUTUMN_24_OBR_FORECAST[p]][BaseYear]]
        Apply(h, p) ==
            IF RateOf(gf, p) = None THEN h
            ELSE [h EXCEPT ![forecast[p]] =
                     Compound(@, base_values[p], GrowthOf(Get(RateOf(gf, p))),
                              FirstLoopYear)]
        h1 == Apply(copied, "gov.obr.employment_income")
        h2 == Apply(h1, "gov.obr.mixed_income")
        h3 == Apply(h2, "gov.obr.non_labour_income")
        h4 == Apply(h3, "gov.obr.consumer_price_index")
    IN  [store |-> h4, forecast |-> forecast]

\* The inner dicts a finished request leaves behind are garbage.
Release(st, i) == [r \in {x \in DOMAIN st : x.worker /= i} |-> st[r]]

\* --------------------------------------------------- forecast calculator

\* float(engine result): v thousandths as a rational.
FloatOf(v) == Rat(v, 1000)

RatSub(x, y) == Rat(x[1] * y[2] - y[1] * x[2], x[2] * y[2])

RatDiv(x, y) == Rat(x[1] * y[2], x[2] * y[1])

Zero == Rat(0, 1)

Hundred == Rat(100, 1)

\* (change / base * 100) if base > 0 else 0
\* (Faulty variant: the fraction, not multiplied by 100.)
PercentOf_Fraction(change, base) ==
    IF base[1] > 0 THEN RatDiv(change, base) ELSE Zero

PercentOf(change, base) ==
    IF base[1] > 0 THEN RatMul(RatDiv(change, base), Hundred) ELSE Zero

\* round(x, 2)
Round2(x) == Rat(RoundDiv(x[1] * 100, x[2]), 100)

\* forecast_difference, before rounding.
\* (Faulty variant: the difference of the rounded incomes.)
ForecastDifference_OfRounded(spring, autumn) ==
    RatSub(Round2(spring), Round2(autumn))

ForecastDifference(spring, autumn) == RatSub(spring, autumn)

\* Lines 305-320: the result before any custom figures.
BaseResult(i25, autumn, spring) ==
    LET absolute_change_obr == RatSub(spring, i25)
        percentage_change_obr == PercentOf(absolute_change_obr, i25)
        forecast_difference == ForecastDifference(spring, autumn)
        forecast_percentage_difference == PercentOf(forecast_difference, autumn)
    IN  ForecastResult(Round2(i25), Round2(spring), Round2(autumn),
                       Round2(absolute_change_obr), Round2(percentage_change_obr),
                       Round2(forecast_difference),
                       Round2(forecast_percentage_difference))

\* Lines 327-332: the three custom fields set on the result.
WithCustom(res, i25, custom) ==
    LET absolute_change_custom == RatSub(custom, i25)
        percentage_change_custom == PercentOf(absolute_change_custom, i25)
    IN  [res EXCEPT !.income_2030_custom = Some(Round2(custom)),
                    !.absolute_change_custom = Some(Round2(absolute_change_custom)),
                    !.percentage_change_custom = Some(Round2(percentage_change_custom))]

\* One call of calculate_household as the engine sees it: the reform dict, the
\* series its inner dicts hold at the time of the call, and the year.
EngineCall(st, sit, reform, year) ==
    [situation |-> sit, reform |-> reform,
     series |-> [p \in Params |-> st[reform[p]]], year |-> year]

\* What the engine may do with a call: return a net income (thousandths), or
\* raise.
EngineOutcomes(V) == {Some(v) : v \in V} \cup {None}

\* ----------------------------------------------------------------- actions

Init ==
    /\ microdata = Panel
    /\ store = InitialStore
    /\ pc = [i \in Workers |-> "idle"]
    /\ household = [i \in Workers |-> None]
    /\ sampled = [i \in Workers |-> None]
    /\ situation = [i \in Workers |-> None]
    /\ income_2025 = [i \in Workers |-> None]
    /\ income_2030_autumn = [i \in Workers |-> None]
    /\ income_2030_spring = [i \in Workers |-> None]
    /\ income_2030_custom = [i \in Workers |-> None]
    /\ custom_forecast = [i \in Workers |-> None]
    /\ result = [i \in Workers |-> None]
    /\ calls = [i \in Workers |-> << >>]
    /\ status = [i \in Workers |-> 0]

\* The request ends with the HTTP status code; nothing else of it changes.
Finish(i, code) ==
    /\ pc' = [pc EXCEPT ![i] = "done"]
    /\ status' = [status EXCEPT ![i] = code]

\* Faulty variant: the boundary age is rejected too.
TooYoung_Inclusive(h) == h.age <= MinAge

TooYoung(h) == h.age < MinAge

\* A worker takes a request h of H: the body is parsed into a Household and
\* the age is validated.
Validate(i, H) ==
    /\ pc[i] = "idle"
    /\ \E h \in H :
        /\ household' = [household EXCEPT ![i] = Some(h)]
        /\ IF TooYoung(h)
           THEN Finish(i, 400)
           ELSE /\ pc' = [pc EXCEPT ![i] = "get_simulation_input"]
                /\ UNCHANGED status
    /\ UNCHANGED <<microdata, store, sampled, situation, income_2025,
                   income_2030_autumn, income_2030_spring, income_2030_custom,
                   custom_forecast, result, calls>>

\* The response is sent and the handler's frame is gone: its locals and the
\* objects only they referred to no longer exist.
Respond(i) ==
    /\ pc[i] = "done"
    /\ pc' = [pc EXCEPT ![i] = "idle"]
    /\ status' = [status EXCEPT ![i] = 0]
    /\ store' = Release(store, i)
    /\ household' = [household EXCEPT ![i] = None]
    /\ sampled' = [sampled EXCEPT ![i] = None]
    /\ situation' = [situation EXCEPT ![i] = None]
    /\ income_2025' = [income_2025 EXCEPT ![i] = None]
    /\ income_2030_autumn' = [income_2030_autumn EXCEPT ![i] = None]
    /\ income_2030_spring' = [income_2030_spring EXCEPT ![i] = None]
    /\ income_2030_custom' = [income_2030_custom EXCEPT ![i] = None]
    /\ custom_forecast' = [custom_forecast EXCEPT ![i] = None]
    /\ result' = [result EXCEPT ![i] = None]
    /\ calls' = [calls EXCEPT ![i] = << >>]
    /\ UNCHANGED microdata

\* get_simulation_input, whole: filter, draw one row by weight, look the
\* household up and build the situation; any exception ends the request
\* with a 500.
GetSimulationInput(i) ==
    /\ pc[i] = "get_simulation_input"
    /\ LET h == Get(household[i])
       IN  IF DrawFails(microdata, h)
           THEN /\ Finish(i, 500)
                /\ UNCHANGED <<sampled, situation>>
           ELSE \E k \in Drawable(microdata, h) :
                  /\ sampled' = [sampled EXCEPT ![i] = Some(k)]
                  /\ IF LookupFails(microdata, h, microdata[k].household_id)
                     THEN /\ Finish(i, 500)
                          /\ UNCHANGED situation
                     ELSE /\ situation' = [situation EXCEPT ![i] =
                                 Some([people |-> PeopleOf(microdata, h, k)])]
                          /\ pc' = [pc EXCEPT ![i] = "calculate_2025"]
                          /\ UNCHANGED status
    /\ UNCHANGED <<microdata, store, household, income_2025, income_2030_autumn,
                   income_2030_spring, income_2030_custom, custom_forecast,
                   result, calls>>

\* The call is logged whether the engine returns or raises.
Called(i, reform, year) ==
    calls' = [calls EXCEPT ![i] =
                 Append(@, EngineCall(store, Get(situation[i]), reform, year))]

\* income_2025 = float(calculate_household(situation, AUTUMN_24, 2025))
Calculate2025(i, V) ==
    /\ pc[i] = "calculate_2025"
    /\ Called(i, AUTUMN_24_OBR_FORECAST, BaseYear)
    /\ \E out \in EngineOutcomes(V) :
         IF out = None
         THEN Finish(i, 500) /\ UNCHANGED income_2025
         ELSE /\ income_2025' = [income_2025 EXCEPT ![i] = Some(FloatOf(Get(out)))]
              /\ pc' = [pc EXCEPT ![i] = "calculate_2030_autumn"]
              /\ UNCHANGED status
    /\ UNCHANGED <<microdata, store, household, sampled, situation,
                   income_2030_autumn, income_2030_spring, income_2030_custom,
                   custom_forecast, result>>

\* income_2030_autumn = float(calculate_household(situation, AUTUMN_24, 2030))
Calculate2030Autumn(i, V) ==
    /\ pc[i] = "calculate_2030_autumn"
    /\ Called(i, AUTUMN_24_OBR_FORECAST, CompareYear)
    /\ \E out \in EngineOutcomes(V) :
         IF out = None
         THEN Finish(i, 500) /\ UNCHANGED income_2030_autumn
         ELSE /\ income_2030_autumn' =
                    [income_2030_autumn EXCEPT ![i] = Some(FloatOf(Get(out)))]
              /\ pc' = [pc EXCEPT ![i] = "calculate_2030_spring"]
              /\ UNCHANGED status
    /\ UNCHANGED <<microdata, store, household, sampled, situation, income_2025,
                   income_2030_spring, income_2030_custom, custom_forecast,
                   result>>

\* income_2030_spring = float(calculate_household(situation, SPRING_25, 2030))
Calculate2030Spring(i, V) ==
    /\ pc[i] = "calculate_2030_spring"
    /\ Called(i, SPRING_25_OBR_FORECAST, CompareYear)
    /\ \E out \in EngineOutcomes(V) :
         IF out = None
         THEN Finish(i, 500) /\ UNCHANGED income_2030_spring
         ELSE /\ income_2030_spring' =
                    [income_2030_spring EXCEPT ![i] = Some(FloatOf(Get(out)))]
              /\ pc' = [pc EXCEPT ![i] = "build_result"]
              /\ UNCHANGED status
    /\ UNCHANGED <<microdata, store, household, sampled, situation, income_2025,
                   income_2030_autumn, income_2030_custom, custom_forecast,
                   result>>

\* if household.custom_growth_factors: a pydantic model object is truthy
\* whatever its fields hold, so only None is falsy.
\* (Faulty variant: an object with every rate unset counts as absent.)
HasCustom_AnyRateSet(h) ==
    /\ h.custom_growth_factors /= None
    /\ \E p \in Params : RateOf(Get(h.custom_growth_factors), p) /= None

HasCustom(h) == h.custom_growth_factors /= None

\* The derived figures and the ForecastResult; without custom growth factors
\* the result is returned.
BuildResult(i) ==
    /\ pc[i] = "build_result"
    /\ result' = [result EXCEPT ![i] =
                     Some(BaseResult(Get(income_2025[i]), Get(income_2030_autumn[i]),
                                     Get(income_2030_spring[i])))]
    /\ IF HasCustom(Get(household[i]))
       THEN /\ pc' = [pc EXCEPT ![i] = "create_custom"]
            /\ UNCHANGED status
       ELSE Finish(i, 200)
    /\ UNCHANGED <<microdata, store, household, sampled, situation, income_2025,
                   income_2030_autumn, income_2030_spring, income_2030_custom,
                   custom_forecast, calls>>

\* custom_forecast = create_custom_growth_factors(household.custom_growth_factors)
CreateCustom(i) ==
    /\ pc[i] = "create_custom"
    /\ LET made == CreateCustomGrowthFactors(
                       store, i, Get(Get(household[i]).custom_growth_factors))
       IN  /\ store' = made.store
           /\ custom_forecast' = [custom_forecast EXCEPT ![i] = Some(made.forecast)]
    /\ pc' = [pc EXCEPT ![i] = "calculate_custom"]
    /\ UNCHANGED <<microdata, household, sampled, situation, income_2025,
                   income_2030_autumn, income_2030_spring, income_2030_custom,
                   result, calls, status>>

\* income_2030_custom = float(calculate_household(situation, custom, 2030)),
\* the three custom fields, and the return.
CalculateCustom(i, V) ==
    /\ pc[i] = "calculate_custom"
    /\ Called(i, Get(custom_forecast[i]), CompareYear)
    /\ \E out \in EngineOutcomes(V) :
         IF out = None
         THEN Finish(i, 500) /\ UNCHANGED <<income_2030_custom, result>>
         ELSE /\ income_2030_custom' =
                    [income_2030_custom EXCEPT ![i] = Some(FloatOf(Get(out)))]
              /\ result' = [result EXCEPT ![i] =
                               Some(WithCustom(Get(@), Get(income_2025[i]),
                                               FloatOf(Get(out))))]
              /\ Finish(i, 200)
    /\ UNCHANGED <<microdata, store, household, sampled, situation, income_2025,
                   income_2030_autumn, income_2030_spring, custom_forecast>>

\* Every step worker i can take, serving requests of H with an engine whose
\* results are drawn from V.
Handler(i, H, V) ==
    \/ Validate(i, H)
    \/ GetSimulationInput(i)
    \/ Calculate2025(i, V)
    \/ Calculate2030Autumn(i, V)
    \/ Calculate2030Spring(i, V)
    \/ BuildResult(i)
    \/ CreateCustom(i)
    \/ CalculateCustom(i, V)
    \/ Respond(i)

\* ---------------------------------------------------------- specifications

NoFactors == GrowthFactors(None, None, None, None)

\* Concurrent requests: every worker serves requests that are rejected, fail
\* in the draw, succeed without custom factors, and succeed with them.
ConcRequests ==
    { Household(15, FALSE, "employment_income", 30000, 0, None),
      Household(70, TRUE, "state_pension", 9000, 0, None),
      Household(70, FALSE, "state_pension", 9000, 0, None),
      Household(70, FALSE, "state_pension", 9000, 0, Some(NoFactors)),
      Household(33, TRUE, "employment_income", 30000, 1,
                Some(GrowthFactors(Some(50), None, None, Some(-50)))) }

ConcValues == {25004}

Next == \E i \in Workers : Handler(i, ConcRequests, ConcValues)

Spec == Init /\ [][Next]_vars

\* Household matching: one worker, every combination of the request fields.
MatchAges == {15, 16, 34, 45, 70}

MatchSources == IncomeSourceSet \cup {"age", "relation_type", "wages"}

MatchAmounts == {0, 34, 30000}

MatchRequests ==
    { Household(a, m, s, amt, n, f) :
        a \in MatchAges, m \in BOOLEAN, s \in MatchSources,
        amt \in MatchAmounts, n \in 0..MaxChildren, f \in {None, Some(NoFactors)} }

MatchValues == {25004}

NextMatch == Handler(1, MatchRequests, MatchValues)

SpecMatch == Init /\ [][NextMatch]_vars

\* Derived figures: one worker, one household, engine results either side of
\* the rounding boundaries, zero and negative.
CalcRequests ==
    { Household(34, FALSE, "employment_income", 30000, 0, None),
      Household(34, FALSE, "employment_income", 30000, 0, Some(NoFactors)) }

CalcValues == {-1500, 0, 4, 6, 994, 1006, 1125, 2000}

NextCalc == Handler(1, CalcRequests, CalcValues)

SpecCalc == Init /\ [][NextCalc]_vars

\* Custom tables: one worker, one household, every combination of the four
\* optional rates.
CustomRates == {None, Some(-100), Some(-50), Some(0), Some(50), Some(100)}

CustomRequests ==
    { Household(34, FALSE, "employment_income", 30000, 0, f) :
        f \in {None} \cup { Some(GrowthFactors(e, m, n, c)) :
                              e \in CustomRates, m \in CustomRates,
                              n \in CustomRates, c \in CustomRates } }

CustomValues == {25004}

NextCustom == Handler(1, CustomRequests, CustomValues)

SpecCustom == Init /\ [][NextCustom]_vars

\* ------------------------------------------------------------------ claims

\* A handler float read in whole thousandths, and in whole hundredths.
Mills(x) == x[1] * (1000 \div x[2])

Cents(x) == x[1] * (100 \div x[2])

InFlight(i) == household[i] /= None

Req(i) == Get(household[i])

Returned(i) == pc[i] = "done" /\ status[i] = 200

\* C1: a request with age < 16 ends at once in a 400, with no draw, no
\* situation and no engine call; a request with age >= 16 never gets a 400.
C1_AgeBelowMinimumRejected ==
    \A i \in Workers :
        InFlight(i) =>
            /\ Req(i).age < 16 =>
                 /\ pc[i] = "done" /\ status[i] = 400
                 /\ sampled[i] = None /\ situation[i] = None
                 /\ calls[i] = << >> /\ result[i] = None
            /\ Req(i).age >= 16 => status[i] /= 400

C1_Witness ==
    \E i \in Workers :
        /\ InFlight(i) /\ Req(i).age < 16 /\ status[i] = 400
        /\ Req(i).is_married /\ Req(i).num_children > 0

MainAdultRow(i) ==
    LET hid == microdata[Get(sampled[i])].household_id
    IN  microdata[CHOOSE k \in DOMAIN microdata :
                     microdata[k].household_id = hid /\ microdata[k].adult_index = 1]

PartnerRow(i) ==
    LET hid == microdata[Get(sampled[i])].household_id
    IN  microdata[CHOOSE k \in DOMAIN microdata :
                     microdata[k].household_id = hid /\ microdata[k].adult_index = 2]

You(i) == Get(situation[i]).people["you"]

PartnerCopiedVerbatim(i) ==
    Req(i).is_married =>
        /\ "your partner" \in DOMAIN Get(situation[i]).people
        /\ DOMAIN Get(situation[i]).people["your partner"] = IncomeSourceSet
        /\ \A v \in IncomeSourceSet :
             Get(situation[i]).people["your partner"][v] = PartnerRow(i)[v]

\* C6 as stated: the six other incomes and the age of "you" are the main
\* adult's, the designated source is the query's amount, the partner is
\* copied verbatim.
C6_Original ==
    \A i \in Workers :
        situation[i] /= None =>
            /\ You(i)[Req(i).income_source] = Req(i).income_amount
            /\ \A v \in IncomeSourceSet \ {Req(i).income_source} :
                 You(i)[v] = MainAdultRow(i)[v]
            /\ You(i)["age"] = MainAdultRow(i).age
            /\ PartnerCopiedVerbatim(i)

\* C6 amended: the six other incomes of "you" are the main adult's, the
\* designated field is the query's amount, and the age of "you" is the
\* query's age (unless age is itself the designated field); the partner is
\* copied verbatim.
C6_YouCarriesQueryAge ==
    \A i \in Workers :
        situation[i] /= None =>
            /\ You(i)[Req(i).income_source] = Req(i).income_amount
            /\ \A v \in IncomeSourceSet \ {Req(i).income_source} :
                 You(i)[v] = MainAdultRow(i)[v]
            /\ Req(i).income_source /= "age" => You(i)["age"] = Req(i).age
            /\ PartnerCopiedVerbatim(i)

\* A married query whose main adult's own value of the designated source and
\* own age differ from the query's.
C6_Witness ==
    \E i \in Workers :
        /\ situation[i] /= None
        /\ Req(i).is_married
        /\ Req(i).income_source = "employment_income"
        /\ MainAdultRow(i).employment_income /= Req(i).income_amount
        /\ MainAdultRow(i).age /= Req(i).age

\* C7: a request whose income_source is not one of the seven income sources
\* never reaches the engine and never returns a result.
C7_UnrecognizedSourceNeverServed ==
    \A i \in Workers :
        (InFlight(i) /\ Req(i).income_source \notin
            {"employment_income", "self_employment_income",
             "private_pension_income", "state_pension",
             "savings_interest_income", "dividend_income", "property_income"})
        => (calls[i] = << >> /\ status[i] /= 200 /\ result[i] = None)

\* C10: with age >= 16 and no row left by the filters, the request can only
\* fail with a 500: no row is drawn, no situation built, no engine call made.
C10_EmptyCandidatesFail ==
    \A i \in Workers :
        (/\ InFlight(i)
         /\ Req(i).age >= 16
         /\ Req(i).income_source \in (DOMAIN microdata[1]) \ {"relation_type"}
         /\ ~ \E k \in DOMAIN microdata :
                /\ microdata[k].age \div 10 = Req(i).age \div 10
                /\ microdata[k].relation_type =
                       (IF Req(i).is_married THEN "COUPLE" ELSE "SINGLE")
                /\ microdata[k].benunit_count_children = Req(i).num_children
                /\ Abs(microdata[k][Req(i).income_source] - Req(i).income_amount)
                       < 15000)
        => /\ sampled[i] = None /\ situation[i] = None
           /\ calls[i] = << >> /\ result[i] = None
           /\ pc[i] \in {"get_simulation_input", "done"}
           /\ pc[i] = "done" => status[i] = 500

\* The demographic filters match rows, the income filter leaves none, and the
\* request has failed.
C10_Witness ==
    \E i \in Workers :
        /\ InFlight(i) /\ pc[i] = "done" /\ status[i] = 500
        /\ Req(i).age = 34 /\ ~Req(i).is_married /\ Req(i).num_children = 0
        /\ Req(i).income_source = "employment_income"
        /\ Req(i).income_amount = 0
        /\ sampled[i] = None

\* C2 as stated: the returned forecast_difference is the difference of the two
\* returned (rounded) incomes.
C2_Original ==
    \A i \in Workers :
        Returned(i) =>
            Cents(Get(result[i]).forecast_difference)
              = Cents(Get(result[i]).income_2030_obr)
                  - Cents(Get(result[i]).income_2030_autumn)

\* C2 amended: the returned forecast_difference is the nearest hundredth to
\* the difference of the two unrounded engine results, and is within 0.01 of
\* the difference of the two returned incomes.
C2_DifferenceOfUnrounded ==
    \A i \in Workers :
        Returned(i) =>
            LET fd == Cents(Get(result[i]).forecast_difference)
                exact == Mills(Get(income_2030_spring[i]))
                           - Mills(Get(income_2030_autumn[i]))
                fields == Cents(Get(result[i]).income_2030_obr)
                            - Cents(Get(result[i]).income_2030_autumn)
            IN  /\ 2 * Abs(10 * fd - exact) <= 10
                /\ Abs(fd - fields) <= 1

\* A returned result whose two incomes round in opposite directions.
C2_Witness ==
    \E i \in Workers :
        /\ Returned(i)
        /\ Mills(Get(income_2030_spring[i])) = 1006
        /\ Mills(Get(income_2030_autumn[i])) = 994
        /\ Cents(Get(result[i]).forecast_difference) = 1

\* C3 as stated: percentage_change_obr is round(absolute_change_obr /
\* income_2025 * 100, 2) of the returned fields when the returned income_2025
\* is positive, and 0 when the returned income_2025 is 0.
C3_Original ==
    \A i \in Workers :
        Returned(i) =>
            LET r == Get(result[i])
                pct == Cents(r.percentage_change_obr)
            IN  /\ Cents(r.income_2025) > 0 =>
                     pct = RoundDiv(Cents(r.absolute_change_obr) * 10000,
                                    Cents(r.income_2025))
                /\ Cents(r.income_2025) = 0 => pct = 0

\* C3 amended: percentage_change_obr is the nearest hundredth to
\* (spring - base) / base * 100 of the unrounded engine results when the
\* unrounded base income is positive, and 0 when it is zero or negative.
C3_PercentageOfUnrounded ==
    \A i \in Workers :
        Returned(i) =>
            LET pct == Cents(Get(result[i]).percentage_change_obr)
                base == Mills(Get(income_2025[i]))
                change == Mills(Get(income_2030_spring[i])) - base
            IN  /\ base > 0 => 2 * Abs(pct * base - 10000 * change) <= base
                /\ base <= 0 => pct = 0

\* A returned result whose base income is positive and rounds to 0.00.
C3_Witness ==
    \E i \in Workers :
        /\ Returned(i)
        /\ Mills(Get(income_2025[i])) = 4
        /\ Cents(Get(result[i]).income_2025) = 0
        /\ Cents(Get(result[i]).percentage_change_obr) /= 0

RECURSIVE IntPow(_, _)
IntPow(a, n) == IF n = 0 THEN 1 ELSE a * IntPow(a, n - 1)

\* base * (1 + r/100)^n, exactly.
Projected(base, r, n) ==
    LET g == Rat(100 + r, 100)
    IN  RatMul(base, <<IntPow(g[1], n), IntPow(g[2], n)>>)

\* C4: in the custom table, a parameter whose rate r is set holds
\* base_2025 * (1 + r/100)^n at year 2025 + n for n = 0..9, and a parameter
\* whose rate is unset holds the Autumn series; the engine is handed that table.
C4_CustomTableCompounds ==
    \A i \in Workers :
        custom_forecast[i] /= None =>
            LET gf == Get(Req(i).custom_growth_factors)
                Table(p) == store[Get(custom_forecast[i])[p]]
                Want(p) ==
                    IF RateOf(gf, p) = None THEN Autumn24Values[p]
                    ELSE [y \in 2025..2034 |->
                            Projected(Autumn24Values[p][2025], Get(RateOf(gf, p)),
                                      y - 2025)]
            IN  /\ \A p \in Params : Table(p) = Want(p)
                /\ Len(calls[i]) = 4 => \A p \in Params : calls[i][4].series[p] = Want(p)

\* A custom table with one rate set to 50 and one unset, handed to the engine.
C4_Witness ==
    \E i \in Workers :
        /\ custom_forecast[i] /= None
        /\ Len(calls[i]) = 4
        /\ Get(Req(i).custom_growth_factors).employment_income_yoy = Some(50)
        /\ Get(Req(i).custom_growth_factors).mixed_income_yoy = None
        /\ Get(Req(i).custom_growth_factors).consumer_price_index_yoy = Some(-50)

\* The engine calls a request makes, in order, as (table, year).
ExpectedCall(i, n) ==
    CASE n = 1 -> [reform |-> AUTUMN_24_OBR_FORECAST, year |-> 2025]
      [] n = 2 -> [reform |-> AUTUMN_24_OBR_FORECAST, year |-> 2030]
      [] n = 3 -> [reform |-> SPRING_25_OBR_FORECAST, year |-> 2030]
      [] n = 4 -> [reform |-> Get(custom_forecast[i]), year |-> 2030]

\* C8: the engine calls of a request are a prefix of (Autumn, 2025),
\* (Autumn, 2030), (Spring, 2030), (custom, 2030); a returned request made
\* the first three, and the fourth exactly when the request carries custom
\* growth factors; the three custom fields are set exactly when the fourth
\* call was made.
C8_EngineCallOrder ==
    \A i \in Workers :
        /\ Len(calls[i]) <= 4
        /\ Len(calls[i]) = 4 => custom_forecast[i] /= None
        /\ \A n \in 1..Len(calls[i]) :
             /\ calls[i][n].reform = ExpectedCall(i, n).reform
             /\ calls[i][n].year = ExpectedCall(i, n).year
             /\ calls[i][n].situation = Get(situation[i])
        /\ Returned(i) =>
             LET r == Get(result[i])
                 fourth == Len(calls[i]) = 4
             IN  /\ Len(calls[i]) >= 3
                 /\ fourth <=> Req(i).custom_growth_factors /= None
                 /\ fourth <=> r.income_2030_custom /= None
                 /\ fourth <=> r.absolute_change_custom /= None
                 /\ fourth <=> r.percentage_change_custom /= None

\* A returned request whose custom growth factors are present with every
\* rate unset.
C8_Witness ==
    \E i \in Workers :
        /\ Returned(i)
        /\ Req(i).custom_growth_factors = Some(NoFactors)
        /\ Len(calls[i]) = 4

\* C9: the panel and the Autumn and Spring series are what they were at
\* start; every engine call given a built-in table saw its initial series; a
\* request's custom table is made of objects of that request only.
C9_SharedStateUnchanged ==
    /\ microdata = Panel
    /\ \A p \in Params :
         /\ store[AUTUMN_24_OBR_FORECAST[p]] = Autumn24Values[p]
         /\ store[SPRING_25_OBR_FORECAST[p]] = Spring25Values[p]
    /\ \A i \in Workers :
         /\ \A n \in 1..Len(calls[i]) :
              /\ calls[i][n].reform = AUTUMN_24_OBR_FORECAST
                   => calls[i][n].series = Autumn24Values
              /\ calls[i][n].reform = SPRING_25_OBR_FORECAST
                   => calls[i][n].series = Spring25Values
         /\ custom_forecast[i] /= None =>
              \A p \in Params :
                 /\ Get(custom_forecast[i])[p] \notin ModuleRefs
                 /\ \A j \in Workers \ {i} :
                      custom_forecast[j] /= None =>
                        \A q \in Params :
                           Get(custom_forecast[j])[q] /= Get(custom_forecast[i])[p]

\* Two requests in flight at once, one holding a custom table that differs
\* from Autumn while the other calls the engine with the Autumn table.
C9_Witness ==
    \E i \in Workers : \E j \in Workers \ {i} :
        /\ custom_forecast[i] /= None
        /\ store[Get(custom_forecast[i])["gov.obr.employment_income"]]
             /= Autumn24Values["gov.obr.employment_income"]
        /\ Len(calls[j]) >= 2
        /\ pc[j] = "calculate_2030_spring"

====
